---- MODULE Spec2Model ----
(***************************************************************************)
(* The seat reservation core of the booking backend: SeatService           *)
(* (book_seat_with_lock, release_seat), BookingService (create_booking,    *)
(* cancel_booking) and the PostgreSQL store they run on.                   *)
(*                                                                         *)
(* The store is modelled at READ COMMITTED (the engine is created with no  *)
(* isolation_level, src/app/db/base.py:5): every statement reads the       *)
(* committed rows; SELECT ... FOR UPDATE takes the seat's row lock and     *)
(* reads the row as committed when the lock is granted; rows written by a  *)
(* transaction become visible to the others at its COMMIT.  Sessions are   *)
(* created with autoflush=False (src/app/db/session.py:5), so a service's  *)
(* writes reach the store inside db.commit(): the flush, then COMMIT.      *)
(***************************************************************************)
EXTENDS Integers, Sequences, FiniteSets, TLC

\* ------------------------------------------------------------------ bounds

\* The clock runs over 0..MaxTime.
MaxTime == 1

\* The ledger holds at most MaxBookings rows.
MaxBookings == 3

\* The sessions table holds at most MaxSessions rows.
MaxSessions == 2

\* ---------------------------------------------------------------- universe

\* Request-handling workers, each with a database session of its own.
Procs == {"w1", "w2"}

Users == {"A", "B", "C"}

\* The resources.id values requests may name: one row of the resources table
\* and one id that names no row.
ResourceIds == {"R1"}

NoResource == "R9"

ResourceArgs == ResourceIds \cup {NoResource}

SlotIds == {"X", "Y"}

\* The seats.id values requests may name: four rows of the seats table and
\* one id that names no row.
SeatIds == {"S01", "S02", "S03", "S04"}

NoSeat == "S99"

SeatArgs == SeatIds \cup {NoSeat}

None == "none"

\* The bookings.id values requests may name: those of the ledger's rows and
\* one id that names no row.
BookingArgs == 1..MaxBookings

\* start_date=None, end_date=None.
NoDate == -1

\* The start_date and end_date values a request may carry.
DateArgs == {NoDate} \cup (0..MaxTime + 1)

\* The seat_type filters a listing may be given: none, and two categories.
SeatTypeArgs == {None, "standard", "vip"}

VARIABLES
    now,        \* datetime.now(timezone.utc)
    resources,  \* committed rows of table resources, by id
    sessions,   \* committed rows of table sessions, in the order inserted
    slots,      \* committed rows of table slots, by id
    seats,      \* committed rows of table seats, by id
    bookings,   \* committed rows of table bookings; a row's id is its index
    xlock,      \* per seat row: the session holding its FOR UPDATE lock
    pc,         \* per worker: where its current call stands
    call,       \* per worker: the call it serves
    result      \* per worker: how the call ended

vars == <<now, resources, sessions, slots, seats, bookings, xlock, pc, call,
          result>>

\* ------------------------------------------------------------------ values

AVAILABLE == "available"

BOOKED == "booked"

RESERVED == "reserved"

MAINTENANCE == "maintenance"

CONFIRMED == "confirmed"

CANCELLED == "cancelled"

NoCall == [op |-> None, user_id |-> None, seat_id |-> None, booking_id |-> 0,
           slot_id |-> None, seat_type |-> None,
           resource_id |-> None, start_date |-> NoDate, end_date |-> NoDate]

\* How a call ended: the status code, the detail, and the seats a seat listing
\* returned (their ids, in the order of the list).
NoResult == [code |-> 0, detail |-> None, body |-> << >>]

\* A service function that returned its value.
Returned == [code |-> 200, detail |-> "returned", body |-> << >>]

Created == [code |-> 201, detail |-> "created", body |-> << >>]

HTTPException(code, detail) == [code |-> code, detail |-> detail, body |-> << >>]

\* ------------------------------------------------------------------- state

TypeOK ==
    /\ now \in 0..MaxTime
    /\ DOMAIN resources = ResourceIds
    /\ DOMAIN slots = SlotIds
    /\ DOMAIN seats = SeatIds
    /\ \A s \in SeatIds :
          /\ seats[s].slot_id \in SlotIds
          /\ seats[s].status \in {AVAILABLE, BOOKED, RESERVED, MAINTENANCE}
    /\ \A i \in 1..Len(bookings) :
          /\ bookings[i].user_id \in Users
          /\ bookings[i].seat_id \in SeatIds
          /\ bookings[i].status \in {CONFIRMED, CANCELLED}
    /\ Len(sessions) <= MaxSessions
    /\ \A i \in 1..Len(sessions) : sessions[i].user_id \in Users
    /\ xlock \in [SeatIds -> Procs \cup {None}]
    /\ pc \in [Procs -> {"idle", "lockwait", "dup", "flush", "commit", "fk",
                         "release", "done"}]

\* The seeded catalog (a909c535ea77, c880d8688ab4): slot X starts at 1 and
\* its seats S01 and S02 are available; slot Y has started, and an operator
\* has put its seats out of service, one reserved and one under maintenance.
\* seat_number holds n for the label f"S{n:02d}", numbered within each slot;
\* the ids are UUIDs, in no relation to the labels.  The ledger holds one
\* row with status 'cancelled' (chk_booking_status admits it), written
\* outside cancel_booking.
Init ==
    /\ now = 0
    /\ resources = [r \in ResourceIds |->
                      [name |-> "Conference Room A", type |-> "meeting_room"]]
    /\ sessions = << >>
    /\ slots = [sl \in SlotIds |->
                  IF sl = "X"
                  THEN [resource_id |-> "R1", start_time |-> 1, end_time |-> 2,
                        capacity |-> 2, version |-> 0]
                  ELSE [resource_id |-> "R1", start_time |-> 0, end_time |-> 1,
                        capacity |-> 2, version |-> 0]]
    /\ seats = [s \in SeatIds |->
                  [slot_id     |-> IF s \in {"S01", "S02"} THEN "X" ELSE "Y",
                   seat_number |-> IF s \in {"S02", "S03"} THEN 1 ELSE 2,
                   seat_type   |-> IF s = "S02" THEN "vip" ELSE "standard",
                   status      |-> CASE s = "S03" -> RESERVED
                                     [] s = "S04" -> MAINTENANCE
                                     [] OTHER     -> AVAILABLE]]
    /\ bookings = << [user_id |-> "C", seat_id |-> "S02", status |-> CANCELLED] >>
    /\ xlock = [s \in SeatIds |-> None]
    /\ pc = [p \in Procs |-> "idle"]
    /\ call = [p \in Procs |-> NoCall]
    /\ result = [p \in Procs |-> NoResult]

\* ------------------------------------------------------------------ store

\* Booking(user_id=..., seat_id=..., status=CONFIRMED)
Booking(user_id, seat_id) ==
    [user_id |-> user_id, seat_id |-> seat_id, status |-> CONFIRMED]

\* A lock on the whole slot instead of the seat's row.
LockConflict_Slot(s, t) == seats[s].slot_id = seats[t].slot_id

\* Seats whose rows a FOR UPDATE on seat s conflicts with: the lock is taken
\* on the one row the query's filter Seat.id == seat_id selects.
LockConflict(s, t) == s = t

\* A locking read that never waits.
LockFree_Always(p, s) == TRUE

\* Whether worker p's SELECT ... FOR UPDATE on seat s is granted at once.
LockFree(p, s) ==
    \A t \in SeatIds : LockConflict(s, t) => xlock[t] \in {None, p}

\* The store without idx_one_confirmed_booking_per_seat.
UniqueViolation_NoIndex(s) == FALSE

\* idx_one_confirmed_booking_per_seat: a committed confirmed booking of seat s.
UniqueViolation(s) ==
    \E i \in 1..Len(bookings) :
        bookings[i].seat_id = s /\ bookings[i].status = CONFIRMED

\* Worker q has flushed a booking row for its seat and not yet committed.
HasPendingInsert(q) == pc[q] \in {"commit", "fk"}

\* The unique index makes an INSERT wait for an uncommitted row of the same key.
InsertWaitsOn(p, q) ==
    /\ q # p
    /\ HasPendingInsert(q)
    /\ call[q].seat_id = call[p].seat_id

\* p's locks are released: commit, rollback or close of its session.
Unlocked(p) == [s \in SeatIds |-> IF xlock[s] = p THEN None ELSE xlock[s]]

\* The duplicate check left out.
ExistingBooking_Skipped(user_id, slot_id) == FALSE

\* db.query(Booking).join(Seat).filter(user_id, slot_id, CONFIRMED).first()
ExistingBooking(user_id, slot_id) ==
    \E i \in 1..Len(bookings) :
        /\ bookings[i].user_id = user_id
        /\ seats[bookings[i].seat_id].slot_id = slot_id
        /\ bookings[i].status = CONFIRMED

\* The slot check left out.
ReserveChecks_NoSlotCheck(seat_id) ==
    IF seat_id \notin SeatIds
    THEN HTTPException(404, "Seat not found")
    ELSE IF seats[seat_id].status # AVAILABLE
    THEN HTTPException(409, "Seat is not available")
    ELSE NoResult

\* The slot check made before the status check.
ReserveChecks_SlotFirst(seat_id) ==
    IF seat_id \notin SeatIds
    THEN HTTPException(404, "Seat not found")
    ELSE IF slots[seats[seat_id].slot_id].start_time <= now
    THEN HTTPException(400, "Cannot book seats for past time slots")
    ELSE IF seats[seat_id].status # AVAILABLE
    THEN HTTPException(409, "Seat is not available")
    ELSE NoResult

\* The checks of a reserve on the seat it read: the seat exists, is available,
\* and its slot has not started.  NoResult when all pass.
ReserveChecks(seat_id) ==
    IF seat_id \notin SeatIds
    THEN HTTPException(404, "Seat not found")
    ELSE IF seats[seat_id].status # AVAILABLE
    THEN HTTPException(409, "Seat is not available")
    ELSE IF slots[seats[seat_id].slot_id].start_time <= now
    THEN HTTPException(400, "Cannot book seats for past time slots")
    ELSE NoResult

\* The status check left out.
ReleaseChecks_NoStatusCheck(seat_id) ==
    IF seat_id \notin SeatIds
    THEN HTTPException(404, "Seat not found")
    ELSE NoResult

\* Only an available seat refused.
ReleaseChecks_AvailableRefused(seat_id) ==
    IF seat_id \notin SeatIds
    THEN HTTPException(404, "Seat not found")
    ELSE IF seats[seat_id].status = AVAILABLE
    THEN HTTPException(400, "Seat is not currently booked")
    ELSE NoResult

\* The checks of release_seat on the seat it locked.
ReleaseChecks(seat_id) ==
    IF seat_id \notin SeatIds
    THEN HTTPException(404, "Seat not found")
    ELSE IF seats[seat_id].status # BOOKED
    THEN HTTPException(400, "Seat is not currently booked")
    ELSE NoResult

\* The seat's status left as it was.
SeatBooked_NotAssigned(s) == seats

\* seat.status = SeatStatus.BOOKED, as committed.
SeatBooked(s) == [seats EXCEPT ![s].status = BOOKED]

\* A reserve that counts itself in the slot's version.
SlotsAfterBooking_VersionBumped(s) ==
    [slots EXCEPT ![seats[s].slot_id].version = @ + 1]

\* The slot rows after book_seat_with_lock's commit: the slot is read
\* (line 77) and never assigned.
SlotsAfterBooking(s) == slots

\* A release that cancels the seat's confirmed booking with it.
BookingsAfterRelease_Cancelled(s) ==
    [i \in 1..Len(bookings) |->
        IF bookings[i].seat_id = s /\ bookings[i].status = CONFIRMED
        THEN [bookings[i] EXCEPT !.status = CANCELLED]
        ELSE bookings[i]]

\* The booking rows after release_seat's commit: it queries and writes none.
BookingsAfterRelease(s) == bookings

\* A reserve that commits the seat's UPDATE before it inserts the booking.
SeatsAfterFailedInsert_SeatCommitted(p) ==
    IF call[p].op = "book_seat_with_lock"
    THEN [seats EXCEPT ![call[p].seat_id].status = BOOKED]
    ELSE seats

\* The seat rows after the INSERT of p's booking failed: the UPDATE of the
\* seat was flushed in the same transaction, and db.rollback() undoes it.
SeatsAfterFailedInsert(p) == seats

\* A release that leaves the seat's status as it was.
SeatReleased_Unchanged(s) == seats

\* seat.status = SeatStatus.AVAILABLE, as committed.
SeatReleased(s) == [seats EXCEPT ![s].status = AVAILABLE]

Ends(p, r) ==
    /\ pc' = [pc EXCEPT ![p] = "done"]
    /\ result' = [result EXCEPT ![p] = r]

\* ------------------------------------------- SeatService.book_seat_with_lock

\* The locking SELECT of book_seat_with_lock or release_seat returns the seat
\* row as committed now, and the checks that follow it without touching the
\* store again run: the seat's status and, for a reserve, the slot's start
\* (slot rows never change, so reading the slot here or one step later gives
\* the same answer at the same clock).  An HTTPException leaves the
\* transaction open: the lock stays until the session is closed.
AfterLock(p, c) ==
    LET s == c.seat_id
        r == IF c.op = "release_seat" THEN ReleaseChecks(s) ELSE ReserveChecks(s)
    IN  /\ xlock' = IF s \in SeatIds THEN [xlock EXCEPT ![s] = p] ELSE xlock
        /\ IF r # NoResult
           THEN Ends(p, r)
           ELSE /\ pc' = [pc EXCEPT ![p] = IF c.op = "release_seat"
                                           THEN "release" ELSE "dup"]
                /\ UNCHANGED result

\* db.query(Seat).filter(Seat.id == seat_id).with_for_update().first(): granted
\* at once, or the worker waits for the row lock.
LockSeat(p, c) ==
    /\ pc[p] = "idle"
    /\ call' = [call EXCEPT ![p] = c]
    /\ IF c.seat_id \in SeatIds => LockFree(p, c.seat_id)
       THEN AfterLock(p, c)
       ELSE /\ pc' = [pc EXCEPT ![p] = "lockwait"]
            /\ UNCHANGED <<xlock, result>>
    /\ UNCHANGED <<now, resources, sessions, slots, seats, bookings>>

BookSeatWithLock(p, user_id, seat_id) ==
    LockSeat(p, [op |-> "book_seat_with_lock", user_id |-> user_id,
                 seat_id |-> seat_id, booking_id |-> 0,
                 slot_id |-> None, seat_type |-> None,
           resource_id |-> None, start_date |-> NoDate, end_date |-> NoDate])

\* The holder of the row lock has committed, rolled back or closed: the
\* waiting SELECT ... FOR UPDATE re-reads the row and returns.
LockGranted(p) ==
    /\ pc[p] = "lockwait"
    /\ LockFree(p, call[p].seat_id)
    /\ AfterLock(p, call[p])
    /\ UNCHANGED <<now, resources, sessions, slots, seats, bookings, call>>

\* The duplicate check of both reserve paths: the user's confirmed bookings
\* in the seat's slot, as committed when the query runs.
CheckExistingBooking(p) ==
    /\ pc[p] = "dup"
    /\ IF ExistingBooking(call[p].user_id, seats[call[p].seat_id].slot_id)
       THEN Ends(p, HTTPException(409, "You already have a booking for this time slot"))
       ELSE /\ pc' = [pc EXCEPT ![p] = "flush"]
            /\ UNCHANGED result
    /\ UNCHANGED <<now, resources, sessions, slots, seats, bookings, xlock, call>>

\* db.commit(), first half: the flush sends the INSERT of the booking (and, in
\* book_seat_with_lock, the UPDATE of the seat this session has locked).  The
\* unique index rejects the row when a committed confirmed booking has its
\* seat_id: IntegrityError, caught by `except Exception`, db.rollback() and
\* HTTPException(500).  It makes the INSERT wait while another session holds
\* an uncommitted row of that seat_id.
Flush(p) ==
    /\ pc[p] = "flush"
    /\ IF UniqueViolation(call[p].seat_id)
       THEN /\ Ends(p, HTTPException(500,
                        IF call[p].op = "create_booking"
                        THEN "Failed to create booking" ELSE "Failed to book seat"))
            /\ xlock' = Unlocked(p)
            /\ seats' = SeatsAfterFailedInsert(p)
       ELSE /\ \A q \in Procs : ~InsertWaitsOn(p, q)
            /\ pc' = [pc EXCEPT ![p] = IF call[p].op = "create_booking"
                                       THEN "fk" ELSE "commit"]
            /\ UNCHANGED <<xlock, result, seats>>
    /\ UNCHANGED <<now, resources, sessions, slots, bookings, call>>

\* db.commit(), second half, in book_seat_with_lock: COMMIT publishes the
\* seat's new status and the booking together and releases the row lock.
CommitBooking(p) ==
    /\ pc[p] = "commit"
    /\ Len(bookings) < MaxBookings
    /\ seats' = SeatBooked(call[p].seat_id)
    /\ bookings' = Append(bookings, Booking(call[p].user_id, call[p].seat_id))
    /\ xlock' = Unlocked(p)
    /\ Ends(p, Returned)
    /\ slots' = SlotsAfterBooking(call[p].seat_id)
    /\ UNCHANGED <<now, resources, sessions, call>>

\* -------------------------------------------------- SeatService.release_seat

ReleaseSeat(p, seat_id) ==
    LockSeat(p, [op |-> "release_seat", user_id |-> None,
                 seat_id |-> seat_id, booking_id |-> 0,
                 slot_id |-> None, seat_type |-> None,
           resource_id |-> None, start_date |-> NoDate, end_date |-> NoDate])

\* seat.status = AVAILABLE; db.commit()
CommitRelease(p) ==
    /\ pc[p] = "release"
    /\ seats' = SeatReleased(call[p].seat_id)
    /\ xlock' = Unlocked(p)
    /\ Ends(p, Returned)
    /\ bookings' = BookingsAfterRelease(call[p].seat_id)
    /\ UNCHANGED <<now, resources, sessions, slots, call>>

\* ---------------------------------- SeatService.get_available_seats_for_slot

\* A store that lets a statement see what other sessions have flushed and
\* not committed.
SeatsSeenBy_Uncommitted(p) ==
    [s \in SeatIds |->
        IF \E q \in Procs : /\ q # p
                            /\ call[q].op = "book_seat_with_lock"
                            /\ pc[q] = "commit"
                            /\ call[q].seat_id = s
        THEN [seats[s] EXCEPT !.status = BOOKED]
        ELSE seats[s]]

\* The seat rows a statement of session p reads when p has written nothing
\* itself: at READ COMMITTED, the committed rows.
SeatsSeenBy(p) == seats

\* The rows in descending order.
RECURSIVE OrderBySeatNumber_Desc(_, _)
OrderBySeatNumber_Desc(rows, S) ==
    IF S = {}
    THEN << >>
    ELSE LET first == CHOOSE s \in S :
                          \A t \in S : rows[s].seat_number >= rows[t].seat_number
         IN  <<first>> \o OrderBySeatNumber_Desc(rows, S \ {first})

\* query.order_by(Seat.seat_number).all(): the selected rows, ascending.
RECURSIVE OrderBySeatNumber(_, _)
OrderBySeatNumber(rows, S) ==
    IF S = {}
    THEN << >>
    ELSE LET first == CHOOSE s \in S :
                          \A t \in S : rows[s].seat_number <= rows[t].seat_number
         IN  <<first>> \o OrderBySeatNumber(rows, S \ {first})

\* filter(Seat.slot_id == slot_id, Seat.status == AVAILABLE), and
\* filter(Seat.seat_type == seat_type) when a seat_type is given.
AvailableSeatsFilter(rows, slot_id, seat_type) ==
    {s \in SeatIds :
        /\ rows[s].slot_id = slot_id
        /\ rows[s].status = AVAILABLE
        /\ seat_type # None => rows[s].seat_type = seat_type}

\* One SELECT; the list of SeatResponse is returned, nothing is written.
GetAvailableSeatsForSlot(p, slot_id, seat_type) ==
    /\ pc[p] = "idle"
    /\ call' = [call EXCEPT ![p] = [op |-> "get_available_seats_for_slot",
                                    user_id |-> None, seat_id |-> None,
                                    booking_id |-> 0,
                                    slot_id |-> slot_id, seat_type |-> seat_type,
                                    resource_id |-> None,
                                    start_date |-> NoDate, end_date |-> NoDate]]
    /\ Ends(p, [Returned EXCEPT !.body =
                   OrderBySeatNumber(SeatsSeenBy(p),
                       AvailableSeatsFilter(SeatsSeenBy(p), slot_id, seat_type))])
    /\ UNCHANGED <<now, resources, sessions, slots, seats, bookings, xlock>>

\* ------------ GET /resources/{id}/slots: ResourceService.get_resource_with_slots

\* effective_start_date = start_date if start_date else current_time
EffectiveStartDate(start_date) ==
    IF start_date # NoDate THEN start_date ELSE now

\* The slots of the joined rows that remain after the filters on resource_id
\* and start_time and, when an end_date is given, on end_time.
SlotsInWindow(resource_id, start_date, end_date) ==
    {sl \in SlotIds :
        /\ slots[sl].resource_id = resource_id
        /\ slots[sl].start_time >= EffectiveStartDate(start_date)
        /\ end_date # NoDate => slots[sl].end_time <= end_date}

\* A comparison that matches no stored status.
HasAvailableSeat_NoMatch(sl) == FALSE

\* available_seats = [s for s in seats if s.status == 'available'] is not empty.
HasAvailableSeat(sl) ==
    \E s \in SeatIds : seats[s].slot_id = sl /\ seats[s].status = AVAILABLE

\* order_by(Slot.start_time, ...): the grouped slots, ascending.
RECURSIVE OrderByStartTime(_)
OrderByStartTime(S) ==
    IF S = {}
    THEN << >>
    ELSE LET first == CHOOSE sl \in S :
                          \A o \in S : slots[sl].start_time <= slots[o].start_time
         IN  <<first>> \o OrderByStartTime(S \ {first})

\* A SlotResponse built with its capacity.
SlotResponseBuilt_WithCapacity(sl) == TRUE

\* SlotResponse(id=, resource_id=, start_time=, end_time=, version=, seats=):
\* the schema requires capacity, which is not passed, so the constructor
\* raises a ValidationError.
SlotResponseBuilt(sl) == FALSE

\* The seats a returned slot carries: SlotResponse declares no seats field,
\* and the seats passed to its constructor are dropped.
SeatsExposed(sl) == << >>

\* The service returns None for an absent resource, which the route answers
\* with 404; a ValidationError is caught by `except Exception` and raised
\* as HTTPException(500).
GetResourceWithSlotsResult(resource_id, start_date, end_date) ==
    IF resource_id \notin ResourceIds
    THEN HTTPException(404, "Resource not found")
    ELSE LET included == OrderByStartTime(
                            {sl \in SlotsInWindow(resource_id, start_date, end_date) :
                                HasAvailableSeat(sl)})
         IN  IF \E i \in 1..Len(included) : ~SlotResponseBuilt(included[i])
             THEN HTTPException(500, "Failed to fetch resource with slots")
             ELSE [Returned EXCEPT !.body =
                     [i \in 1..Len(included) |->
                        [slot_id |-> included[i],
                         seats   |-> SeatsExposed(included[i])]]]

GetResourceWithSlots(p, resource_id, start_date, end_date) ==
    /\ pc[p] = "idle"
    /\ call' = [call EXCEPT ![p] =
                  [NoCall EXCEPT !.op = "get_resource_with_slots",
                                 !.resource_id = resource_id,
                                 !.start_date = start_date,
                                 !.end_date = end_date]]
    /\ Ends(p, GetResourceWithSlotsResult(resource_id, start_date, end_date))
    /\ UNCHANGED <<now, resources, sessions, slots, seats, bookings, xlock>>

\* ------------------------------ POST /bookings: BookingService.create_booking

\* db.query(Seat).filter(Seat.id == seat_id).first(): a plain read, no lock;
\* then the status and slot checks.
CreateBooking(p, user_id, seat_id) ==
    /\ pc[p] = "idle"
    /\ call' = [call EXCEPT ![p] = [op |-> "create_booking", user_id |-> user_id,
                                    seat_id |-> seat_id, booking_id |-> 0,
                                    slot_id |-> None, seat_type |-> None,
           resource_id |-> None, start_date |-> NoDate, end_date |-> NoDate]]
    /\ IF ReserveChecks(seat_id) # NoResult
       THEN Ends(p, ReserveChecks(seat_id))
       ELSE /\ pc' = [pc EXCEPT ![p] = "dup"]
            /\ UNCHANGED result
    /\ UNCHANGED <<now, resources, sessions, slots, seats, bookings, xlock>>

\* The rest of create_booking's db.commit(): the INSERT's foreign-key check
\* takes a key-share lock on the seat row, which waits for another session's
\* FOR UPDATE lock on it; then COMMIT publishes the booking.  The seat row is
\* not written: create_booking never assigns seat.status.
CommitCreate(p) ==
    /\ pc[p] = "fk"
    /\ xlock[call[p].seat_id] \in {None, p}
    /\ Len(bookings) < MaxBookings
    /\ bookings' = Append(bookings, Booking(call[p].user_id, call[p].seat_id))
    /\ Ends(p, Created)
    /\ UNCHANGED <<now, resources, sessions, slots, seats, xlock, call>>

\* --------------------- POST /bookings/{id}/cancel: BookingService.cancel_booking

\* How the body of cancel_booking's try block ends.  The module imports
\* fastapi's status as http_status and defines no name `status`, and Booking
\* maps no slot_id column: each path raises before booking.status is assigned.
CancelBookingBody(booking_id, user_id) ==
    IF ~(booking_id \in 1..Len(bookings) /\ bookings[booking_id].user_id = user_id)
    THEN "NameError"            \* status.HTTP_404_NOT_FOUND
    ELSE IF bookings[booking_id].status = CANCELLED
    THEN "NameError"            \* status.HTTP_400_BAD_REQUEST
    ELSE "AttributeError"       \* booking.slot_id

\* A cancel that puts the booking's seat back on sale.
SeatsAfterCancel_Released(booking_id, user_id) ==
    IF booking_id \in 1..Len(bookings) /\ bookings[booking_id].user_id = user_id
    THEN [seats EXCEPT ![bookings[booking_id].seat_id].status = AVAILABLE]
    ELSE seats

\* A cancel that deletes the booking's row.
BookingsAfterCancel_Deleted(booking_id, user_id) ==
    IF booking_id \in 1..Len(bookings) /\ bookings[booking_id].user_id = user_id
    THEN SubSeq(bookings, 1, booking_id - 1)
         \o SubSeq(bookings, booking_id + 1, Len(bookings))
    ELSE bookings

\* The booking rows after cancel_booking: every path raises before
\* booking.status is assigned and committed, and none deletes a row.
BookingsAfterCancel(booking_id, user_id) == bookings

\* The seat rows after cancel_booking: no statement of it writes a seat.
SeatsAfterCancel(booking_id, user_id) == seats

\* `except Exception` rolls back and raises NameError in its turn
\* (status.HTTP_500_INTERNAL_SERVER_ERROR); the route answers 500.
CancelBooking(p, user_id, booking_id) ==
    /\ pc[p] = "idle"
    /\ booking_id <= Len(bookings) + 1
    /\ call' = [call EXCEPT ![p] = [op |-> "cancel_booking", user_id |-> user_id,
                                    seat_id |-> None, booking_id |-> booking_id,
                                    slot_id |-> None, seat_type |-> None,
           resource_id |-> None, start_date |-> NoDate, end_date |-> NoDate]]
    /\ CancelBookingBody(booking_id, user_id) \in {"NameError", "AttributeError"}
    /\ Ends(p, HTTPException(500, "Internal server error"))
    /\ seats' = SeatsAfterCancel(booking_id, user_id)
    /\ bookings' = BookingsAfterCancel(booking_id, user_id)
    /\ UNCHANGED <<now, resources, sessions, slots, xlock>>

\* ------------------- GET /bookings/{id}: BookingService.get_booking_by_id

\* How the body of get_booking_by_id's try block ends.  The query filters
\* on the id and the caller; for the row it finds, booking.slot_id is read,
\* and Booking maps no slot_id column.
GetBookingByIdBody(booking_id, user_id) ==
    IF ~(booking_id \in 1..Len(bookings) /\ bookings[booking_id].user_id = user_id)
    THEN "None"                 \* return None
    ELSE "AttributeError"       \* booking.slot_id

\* The route answers 404 for None.  `except Exception` in the service
\* raises NameError in its turn (status.HTTP_500_INTERNAL_SERVER_ERROR, the
\* module defining no name `status`), and the route's `except Exception`
\* answers 500.
GetBooking(p, user_id, booking_id) ==
    /\ pc[p] = "idle"
    /\ booking_id <= Len(bookings) + 1
    /\ call' = [call EXCEPT ![p] = [NoCall EXCEPT !.op = "get_booking",
                                                  !.user_id = user_id,
                                                  !.booking_id = booking_id]]
    /\ IF GetBookingByIdBody(booking_id, user_id) = "None"
       THEN Ends(p, HTTPException(404, "Booking not found"))
       ELSE Ends(p, HTTPException(500, "Internal server error"))
    /\ UNCHANGED <<now, resources, sessions, slots, seats, bookings, xlock>>

\* ---------------------------------------- /auth: AuthService and its tokens

ACCESS_TOKEN_EXPIRE_MINUTES == 15

REFRESH_TOKEN_EXPIRE_DAYS == 7

\* timedelta(minutes=settings.ACCESS_TOKEN_EXPIRE_MINUTES), in seconds.
AccessLifetime == ACCESS_TOKEN_EXPIRE_MINUTES * 60

\* timedelta(days=settings.REFRESH_TOKEN_EXPIRE_DAYS), the clock counting
\* seconds.
RefreshLifetime == REFRESH_TOKEN_EXPIRE_DAYS * 24 * 60 * 60

\* create_refresh_token: the token is the HS256 encoding of its claims under
\* the one JWT_SECRET, so equal claims give the same token; jwt.encode writes
\* the datetime of "exp" as whole seconds.
CreateRefreshToken(user_id) ==
    [sub |-> user_id, type |-> "refresh", exp |-> now + RefreshLifetime]

\* create_access_token: claims "sub" and "exp", no "type".
CreateAccessToken(user_id) ==
    [sub |-> user_id, type |-> None, exp |-> now + AccessLifetime]

\* hashlib.sha256(token).hexdigest(): the same digest for the same token,
\* different digests for different tokens.
HashRefreshToken(token) == <<"sha256", token.sub, token.type, token.exp>>

\* The tokens a request may carry: the refresh tokens login can issue, and
\* an access token.
TokenArgs ==
    {[sub |-> u, type |-> "refresh", exp |-> t + RefreshLifetime] :
        u \in Users, t \in 0..MaxTime}
    \cup {[sub |-> "A", type |-> None, exp |-> AccessLifetime]}

AuthCall(op, user_id, token) ==
    [op |-> op, user_id |-> user_id, seat_id |-> None, booking_id |-> 0,
     slot_id |-> None, seat_type |-> None, resource_id |-> None,
     start_date |-> NoDate, end_date |-> NoDate, refresh_token |-> token]

\* SessionModel(user_id=, refresh_token_hash=, expires_at=)
SessionModel(user_id, refresh_token_hash) ==
    [user_id |-> user_id, refresh_token_hash |-> refresh_token_hash,
     expires_at |-> now + RefreshLifetime]

\* The rows that the filter on refresh_token_hash and user_id selects.
SessionsOf(token) ==
    {i \in 1..Len(sessions) :
        /\ sessions[i].refresh_token_hash = HashRefreshToken(token)
        /\ sessions[i].user_id = token.sub}

\* jwt.decode raises ExpiredSignatureError, a JWTError, once "exp" has passed.
Decodes(token) == token.exp >= now

\* validate_refresh_token: NoResult when the token is valid.
ValidateRefreshToken(token) ==
    IF ~Decodes(token)
    THEN HTTPException(401, "Invalid refresh token")
    ELSE IF token.type # "refresh"
    THEN HTTPException(401, "Invalid token type")
    ELSE IF \A i \in SessionsOf(token) : ~(sessions[i].expires_at > now)
    THEN HTTPException(401, "Invalid or expired refresh token")
    ELSE NoResult

\* revoke_refresh_token: .first() is one of the selected rows, which differ
\* in their ids alone, and db.delete(session) removes that one row.  A
\* token that does not decode, or selects no row, is logged and nothing is
\* deleted.
SessionsAfterRevoke(token) ==
    IF ~Decodes(token) \/ SessionsOf(token) = {}
    THEN sessions
    ELSE LET first == CHOOSE i \in SessionsOf(token) :
                          \A j \in SessionsOf(token) : i <= j
         IN  SubSeq(sessions, 1, first - 1)
             \o SubSeq(sessions, first + 1, Len(sessions))

\* AuthService.login_user for a registered user: a wrong password is
\* answered 401; otherwise the tokens are created, the session row is
\* inserted and committed, and the tokens are returned.
LoginUser(p, user_id, password_ok) ==
    /\ pc[p] = "idle"
    /\ call' = [call EXCEPT ![p] = AuthCall("login_user", user_id, None)]
    /\ IF ~password_ok
       THEN /\ Ends(p, HTTPException(401, "Invalid credentials"))
            /\ UNCHANGED sessions
       ELSE /\ Len(sessions) < MaxSessions
            /\ sessions' = Append(sessions,
                   SessionModel(user_id,
                                HashRefreshToken(CreateRefreshToken(user_id))))
            /\ Ends(p, [Returned EXCEPT !.body =
                          <<CreateAccessToken(user_id), CreateRefreshToken(user_id)>>])
    /\ UNCHANGED <<now, resources, slots, seats, bookings, xlock>>

\* AuthService.refresh_tokens: one SELECT; a new access token and the same
\* refresh token are returned.
RefreshTokens(p, token) ==
    /\ pc[p] = "idle"
    /\ call' = [call EXCEPT ![p] = AuthCall("refresh_tokens", None, token)]
    /\ IF ValidateRefreshToken(token) # NoResult
       THEN Ends(p, ValidateRefreshToken(token))
       ELSE Ends(p, [Returned EXCEPT !.body =
                       <<CreateAccessToken(token.sub), token>>])
    /\ UNCHANGED <<now, resources, sessions, slots, seats, bookings, xlock>>

\* AuthService.logout_user: revoke_refresh_token, which raises nothing, then
\* db.commit(); the route answers 200.
LogoutUser(p, token) ==
    /\ pc[p] = "idle"
    /\ call' = [call EXCEPT ![p] = AuthCall("logout_user", None, token)]
    /\ sessions' = SessionsAfterRevoke(token)
    /\ Ends(p, Returned)
    /\ UNCHANGED <<now, resources, slots, seats, bookings, xlock>>

\* ------------------------------------------------------- store and session

\* Worker p's statement cannot proceed until worker q's transaction ends.
WaitsFor(p, q) ==
    /\ q # p
    /\ \/ /\ pc[p] = "lockwait"
          /\ \E t \in SeatIds : LockConflict(call[p].seat_id, t) /\ xlock[t] = q
       \/ /\ pc[p] = "flush"
          /\ ~UniqueViolation(call[p].seat_id)
          /\ InsertWaitsOn(p, q)
       \/ /\ pc[p] = "fk"
          /\ xlock[call[p].seat_id] = q

Blockers(S) == {q \in Procs : \E p \in S : WaitsFor(p, q)}

RECURSIVE BlockersWithin(_, _)
BlockersWithin(S, n) ==
    IF n = 0 THEN S ELSE BlockersWithin(S \cup Blockers(S), n - 1)

\* p waits, directly or through others, for itself.
InDeadlock(p) == p \in BlockersWithin(Blockers({p}), Cardinality(Procs))

\* PostgreSQL's deadlock detector ends one waiting statement of a cycle with
\* an error: `except Exception`, db.rollback(), HTTPException(500).
DeadlockDetected(p) ==
    /\ InDeadlock(p)
    /\ xlock' = Unlocked(p)
    /\ Ends(p, HTTPException(500,
                 IF call[p].op = "create_booking"
                 THEN "Failed to create booking" ELSE "Failed to book seat"))
    /\ UNCHANGED <<now, resources, sessions, slots, seats, bookings, call>>

\* The store runs with a lock_timeout (a setting of the server or of
\* DATABASE_URL): the SELECT ... FOR UPDATE that waits for the row lock is
\* ended with an error, which is no HTTPException: `except Exception`,
\* db.rollback(), HTTPException(500).
LockTimeout(p) ==
    /\ pc[p] = "lockwait"
    /\ ~LockFree(p, call[p].seat_id)
    /\ xlock' = Unlocked(p)
    /\ Ends(p, HTTPException(500,
                 IF call[p].op = "release_seat"
                 THEN "Failed to release seat" ELSE "Failed to book seat"))
    /\ UNCHANGED <<now, resources, sessions, slots, seats, bookings, call>>

\* A session that is dropped without being closed.
SessionClosed_LocksKept(p) == xlock

\* The row locks after db.close(): the open transaction is rolled back.
SessionClosed(p) == Unlocked(p)

\* get_db's finally: db.close() ends the transaction if still open, which
\* releases the row lock an HTTPException path left held.
Close(p) ==
    /\ pc[p] = "done"
    /\ pc' = [pc EXCEPT ![p] = "idle"]
    /\ call' = [call EXCEPT ![p] = NoCall]
    /\ result' = [result EXCEPT ![p] = NoResult]
    /\ xlock' = SessionClosed(p)
    /\ UNCHANGED <<now, resources, sessions, slots, seats, bookings>>

\* Time passes.
Tick ==
    /\ now < MaxTime
    /\ now' = now + 1
    /\ UNCHANGED <<resources, sessions, slots, seats, bookings, xlock, pc, call, result>>

Next ==
    \/ \E p \in Procs, u \in Users, s \in SeatArgs : BookSeatWithLock(p, u, s)
    \/ \E p \in Procs : LockGranted(p)
    \/ \E p \in Procs : CheckExistingBooking(p)
    \/ \E p \in Procs : Flush(p)
    \/ \E p \in Procs : CommitBooking(p)
    \/ \E p \in Procs, s \in SeatArgs : ReleaseSeat(p, s)
    \/ \E p \in Procs : CommitRelease(p)
    \/ \E p \in Procs, sl \in SlotIds, ty \in SeatTypeArgs :
          GetAvailableSeatsForSlot(p, sl, ty)
    \/ \E p \in Procs, u \in Users, s \in SeatArgs : CreateBooking(p, u, s)
    \/ \E p \in Procs : CommitCreate(p)
    \/ \E p \in Procs, u \in Users, b \in BookingArgs : CancelBooking(p, u, b)
    \/ \E p \in Procs : DeadlockDetected(p)
    \/ \E p \in Procs : Close(p)
    \/ Tick

Spec == Init /\ [][Next]_vars

\* One worker serving one call after another: no statement ever waits.
SeqProc == "w1"

SeqNext ==
    \/ \E u \in Users, s \in SeatArgs : BookSeatWithLock(SeqProc, u, s)
    \/ CheckExistingBooking(SeqProc)
    \/ Flush(SeqProc)
    \/ CommitBooking(SeqProc)
    \/ \E s \in SeatArgs : ReleaseSeat(SeqProc, s)
    \/ CommitRelease(SeqProc)
    \/ \E sl \in SlotIds, ty \in SeatTypeArgs :
          GetAvailableSeatsForSlot(SeqProc, sl, ty)
    \/ \E u \in Users, s \in SeatArgs : CreateBooking(SeqProc, u, s)
    \/ CommitCreate(SeqProc)
    \/ \E u \in Users, b \in BookingArgs : CancelBooking(SeqProc, u, b)
    \/ Close(SeqProc)
    \/ Tick

SpecSeq == Init /\ [][SeqNext]_vars

\* The workers serving POST /bookings only.
ApiNext ==
    \/ \E p \in Procs, u \in Users, s \in SeatArgs : CreateBooking(p, u, s)
    \/ \E p \in Procs : CheckExistingBooking(p)
    \/ \E p \in Procs : Flush(p)
    \/ \E p \in Procs : CommitCreate(p)
    \/ \E p \in Procs : Close(p)
    \/ Tick

SpecApi == Init /\ [][ApiNext]_vars

\* SeatService on a store that runs with a lock_timeout.
TimeoutNext ==
    \/ \E p \in Procs, u \in Users, s \in SeatArgs : BookSeatWithLock(p, u, s)
    \/ \E p \in Procs : LockGranted(p)
    \/ \E p \in Procs : LockTimeout(p)
    \/ \E p \in Procs : CheckExistingBooking(p)
    \/ \E p \in Procs : Flush(p)
    \/ \E p \in Procs : CommitBooking(p)
    \/ \E p \in Procs, s \in SeatArgs : ReleaseSeat(p, s)
    \/ \E p \in Procs : CommitRelease(p)
    \/ \E p \in Procs : Close(p)
    \/ Tick

SpecTimeout == Init /\ [][TimeoutNext]_vars

\* The catalog some time after seeding: every seat is available, as seeded,
\* or was put out of service by an operator; slot Y has started.
InitCatalog ==
    /\ now = 0
    /\ resources = [r \in ResourceIds |->
                      [name |-> "Conference Room A", type |-> "meeting_room"]]
    /\ sessions = << >>
    /\ slots = [sl \in SlotIds |->
                  IF sl = "X"
                  THEN [resource_id |-> "R1", start_time |-> 1, end_time |-> 2,
                        capacity |-> 2, version |-> 0]
                  ELSE [resource_id |-> "R1", start_time |-> 0, end_time |-> 1,
                        capacity |-> 2, version |-> 0]]
    /\ \E st \in [SeatIds -> {AVAILABLE, RESERVED, MAINTENANCE}] :
          seats = [s \in SeatIds |->
                     [slot_id     |-> IF s \in {"S01", "S02"} THEN "X" ELSE "Y",
                      seat_number |-> IF s \in {"S02", "S03"} THEN 1 ELSE 2,
                      seat_type   |-> IF s = "S02" THEN "vip" ELSE "standard",
                      status      |-> st[s]]]
    /\ bookings = << >>
    /\ xlock = [s \in SeatIds |-> None]
    /\ pc = [p \in Procs |-> "idle"]
    /\ call = [p \in Procs |-> NoCall]
    /\ result = [p \in Procs |-> NoResult]

\* One worker serving the slot catalog and reserves, one call after another.
CatalogNext ==
    \/ \E r \in ResourceArgs, sd \in DateArgs, ed \in DateArgs :
          GetResourceWithSlots(SeqProc, r, sd, ed)
    \/ \E u \in Users, s \in SeatArgs : BookSeatWithLock(SeqProc, u, s)
    \/ CheckExistingBooking(SeqProc)
    \/ Flush(SeqProc)
    \/ CommitBooking(SeqProc)
    \/ Close(SeqProc)
    \/ Tick

SpecCatalog == InitCatalog /\ [][CatalogNext]_vars

\* The calls in progress next to a call of worker p on seat s are calls on s.
SameSeat(p, s) == \A q \in Procs \ {p} : pc[q] = "idle" \/ call[q].seat_id = s

\* SeatService called by both workers, concurrently on one seat at a time.
SameSeatNext ==
    \/ \E p \in Procs, u \in Users, s \in SeatArgs :
          SameSeat(p, s) /\ BookSeatWithLock(p, u, s)
    \/ \E p \in Procs : LockGranted(p)
    \/ \E p \in Procs : CheckExistingBooking(p)
    \/ \E p \in Procs : Flush(p)
    \/ \E p \in Procs : CommitBooking(p)
    \/ \E p \in Procs, s \in SeatArgs : SameSeat(p, s) /\ ReleaseSeat(p, s)
    \/ \E p \in Procs : CommitRelease(p)
    \/ \E p \in Procs : Close(p)
    \/ Tick

SpecSameSeat == Init /\ [][SameSeatNext]_vars

\* SeatService and cancel_booking, called by both workers on any seats.
SeatNext ==
    \/ \E p \in Procs, u \in Users, s \in SeatArgs : BookSeatWithLock(p, u, s)
    \/ \E p \in Procs : LockGranted(p)
    \/ \E p \in Procs : CheckExistingBooking(p)
    \/ \E p \in Procs : Flush(p)
    \/ \E p \in Procs : CommitBooking(p)
    \/ \E p \in Procs, s \in SeatArgs : ReleaseSeat(p, s)
    \/ \E p \in Procs : CommitRelease(p)
    \/ \E p \in Procs, u \in Users, b \in BookingArgs : CancelBooking(p, u, b)
    \/ \E p \in Procs : Close(p)
    \/ Tick

SpecSeat == Init /\ [][SeatNext]_vars

\* One worker serving POST /bookings and GET /bookings/{booking_id}.
LookupNext ==
    \/ \E u \in Users, s \in SeatArgs : CreateBooking(SeqProc, u, s)
    \/ CheckExistingBooking(SeqProc)
    \/ Flush(SeqProc)
    \/ CommitCreate(SeqProc)
    \/ \E u \in Users, b \in BookingArgs : GetBooking(SeqProc, u, b)
    \/ Close(SeqProc)
    \/ Tick

SpecLookup == Init /\ [][LookupNext]_vars

\* The workers serving /auth/login, /auth/refresh and /auth/logout.
AuthNext ==
    \/ \E p \in Procs, u \in Users, ok \in BOOLEAN : LoginUser(p, u, ok)
    \/ \E p \in Procs, t \in TokenArgs : RefreshTokens(p, t)
    \/ \E p \in Procs, t \in TokenArgs : LogoutUser(p, t)
    \/ \E p \in Procs : Close(p)
    \/ Tick

SpecAuth == Init /\ [][AuthNext]_vars

\* The callers and the seats of the calls whose progress is checked: two
\* users, the two seats of slot X, and the id that names no seat.
LiveUsers == {"A", "B"}

LiveSeatArgs == {"S01", "S02", NoSeat}

\* SeatService alone, called by both workers.
LiveNext ==
    \/ \E p \in Procs, u \in LiveUsers, s \in LiveSeatArgs : BookSeatWithLock(p, u, s)
    \/ \E p \in Procs : LockGranted(p)
    \/ \E p \in Procs : CheckExistingBooking(p)
    \/ \E p \in Procs : Flush(p)
    \/ \E p \in Procs : CommitBooking(p)
    \/ \E p \in Procs, s \in LiveSeatArgs : ReleaseSeat(p, s)
    \/ \E p \in Procs : CommitRelease(p)
    \/ \E p \in Procs : Close(p)
    \/ Tick

\* A call that has begun runs on: each statement of the service that can
\* proceed does, and get_db's finally closes the session once the call has
\* ended.  The store grants a row lock that falls free to the session
\* waiting for it: a waiter is not passed over for ever.  Nothing obliges a
\* worker to begin a call, or the clock to advance.
SpecLive ==
    /\ Init
    /\ [][LiveNext]_vars
    /\ \A p \in Procs :
          /\ SF_vars(LockGranted(p))
          /\ WF_vars(CheckExistingBooking(p))
          /\ WF_vars(Flush(p))
          /\ WF_vars(CommitBooking(p))
          /\ WF_vars(CommitRelease(p))
          /\ WF_vars(Close(p))

\* ------------------------------------------------------------- properties

ReserveOps == {"book_seat_with_lock", "create_booking"}

\* The confirmed bookings that reference seat s.
ConfirmedFor(s) ==
    {i \in 1..Len(bookings) :
        bookings[i].seat_id = s /\ bookings[i].status = CONFIRMED}

\* Worker p's call has ended with result r.
Ended(p, op) == pc[p] = "done" /\ call[p].op = op

SlotOf(s) == seats[s].slot_id

Future(s) == now < slots[SlotOf(s)].start_time

\* User u holds a confirmed booking in the slot of seat s.
HoldsInSlot(u, s) ==
    \E i \in 1..Len(bookings) :
        /\ bookings[i].user_id = u
        /\ bookings[i].status = CONFIRMED
        /\ SlotOf(bookings[i].seat_id) = SlotOf(s)

\* C1: in every reachable state each seat is referenced by at most one
\* confirmed booking.
C1_OneConfirmedPerSeat ==
    \A s \in SeatIds : Cardinality(ConfirmedFor(s)) <= 1

\* Two workers reserved the same seat: one booking is confirmed and the
\* other worker's insert was turned away by the unique index.
C1_Witness ==
    \E p, q \in Procs :
        /\ p # q
        /\ pc[p] = "done" /\ pc[q] = "done"
        /\ call[p].op \in ReserveOps /\ call[q].op \in ReserveOps
        /\ call[p].seat_id = call[q].seat_id
        /\ result[p].code \in {200, 201}
        /\ result[q].code = 500
        /\ Cardinality(ConfirmedFor(call[p].seat_id)) = 1

\* Worker p's book_seat_with_lock found its seat available, its slot not
\* started and no booking of its user in the slot, and has ended.
PassedChecks(p) ==
    /\ Ended(p, "book_seat_with_lock")
    /\ result[p].code \notin {404, 409, 400}

\* C2: when distinct users without a confirmed booking in the slot call
\* book_seat_with_lock concurrently on the same available seat of a future
\* slot, the lock holder returns a confirmed booking, and a caller that waited
\* for it re-reads the seat as booked and fails with 409 'Seat is not
\* available'.  Stated at the step in which the waiting SELECT returns.
C2_ExactlyOneWins ==
    [][\A p, q \in Procs :
          (/\ p # q
           /\ PassedChecks(p)
           /\ pc[q] = "lockwait"
           /\ call[q].op = "book_seat_with_lock"
           /\ call[q].seat_id = call[p].seat_id
           /\ call[q].user_id # call[p].user_id
           /\ ~HoldsInSlot(call[q].user_id, call[q].seat_id)
           /\ pc'[q] # "lockwait")
          => /\ result[p] = Returned
             /\ pc'[q] = "done"
             /\ result'[q] = HTTPException(409, "Seat is not available")]_vars

\* C3: every response of POST /bookings is 201, 404, 400 or 409, never 500;
\* and when distinct users request the same available seat of a future slot
\* and one is answered 201, the other is answered 409.
C3_CreateBookingResponses ==
    /\ \A p \in Procs :
          Ended(p, "create_booking") => result[p].code \in {201, 404, 400, 409}
    /\ \A p, q \in Procs :
          (/\ p # q
           /\ Ended(p, "create_booking") /\ Ended(q, "create_booking")
           /\ call[p].seat_id = call[q].seat_id
           /\ call[p].user_id # call[q].user_id
           /\ result[p] = Created
           /\ Future(call[q].seat_id))
          => result[q].code = 409

\* C4: no two confirmed bookings have the same user_id and seats of the
\* same slot.
C4_OneConfirmedPerUserPerSlot ==
    \A i, j \in 1..Len(bookings) :
        (/\ i # j
         /\ bookings[i].status = CONFIRMED /\ bookings[j].status = CONFIRMED
         /\ bookings[i].user_id = bookings[j].user_id)
        => SlotOf(bookings[i].seat_id) # SlotOf(bookings[j].seat_id)

\* C5: a book_seat_with_lock call that returns has, in the one step that
\* makes it visible, turned its available seat to booked and appended a
\* confirmed booking for exactly its user and seat; every other step of a
\* book_seat_with_lock call changes no committed seat and no committed booking.
C5_AtomicReserve ==
    [][\A p \in Procs :
          (call'[p].op = "book_seat_with_lock" /\ pc'[p] # pc[p])
          => IF pc'[p] = "done" /\ result'[p] = Returned
             THEN /\ call'[p].seat_id \in SeatIds
                  /\ seats[call'[p].seat_id].status = AVAILABLE
                  /\ seats' = [seats EXCEPT ![call'[p].seat_id].status = BOOKED]
                  /\ bookings' = Append(bookings,
                                    [user_id |-> call'[p].user_id,
                                     seat_id |-> call'[p].seat_id,
                                     status  |-> CONFIRMED])
             ELSE seats' = seats /\ bookings' = bookings]_vars

\* A book_seat_with_lock has returned: its seat is booked and its booking is
\* in the ledger.
C5_Witness ==
    \E p \in Procs :
        /\ Ended(p, "book_seat_with_lock")
        /\ result[p] = Returned
        /\ seats[call[p].seat_id].status = BOOKED
        /\ \E i \in ConfirmedFor(call[p].seat_id) :
              bookings[i].user_id = call[p].user_id

\* C6: after POST /bookings answers 201 for seat S, S's status is booked (S is
\* not among the available seats of its slot).
C6_SeatBookedAfterCreate ==
    \A p \in Procs :
        (Ended(p, "create_booking") /\ result[p] = Created)
        => seats[call[p].seat_id].status = BOOKED

\* User u holds a confirmed booking for a seat of s's slot other than s.
HoldsOtherSeat(u, s) ==
    \E i \in 1..Len(bookings) :
        /\ bookings[i].user_id = u
        /\ bookings[i].status = CONFIRMED
        /\ bookings[i].seat_id # s
        /\ SlotOf(bookings[i].seat_id) = SlotOf(s)

\* Another user than u holds a confirmed booking for seat s.
TakenByOther(u, s) ==
    \E i \in ConfirmedFor(s) : bookings[i].user_id # u

\* C7: the scenario of section 8 through POST /bookings, one request after
\* another, on available seats of a future slot: a request for a seat another
\* user has reserved is answered 409; a request by a user who has reserved
\* another seat of the slot is answered 409; a request for a free seat by a
\* user with no booking in the slot is answered 201 with a confirmed booking.
C7_LiteralScenario ==
    LET p == SeqProc
        s == call[p].seat_id
        u == call[p].user_id
    IN  (/\ Ended(p, "create_booking")
         /\ s \in SeatIds
         /\ seats[s].status = AVAILABLE
         /\ Future(s))
        => /\ TakenByOther(u, s) => result[p].code = 409
           /\ HoldsOtherSeat(u, s) => result[p].code = 409
           /\ (~TakenByOther(u, s) /\ ~HoldsOtherSeat(u, s))
                 => \E i \in ConfirmedFor(s) : bookings[i].user_id = u
           /\ result[p] = Created
                 => \E i \in ConfirmedFor(s) : bookings[i].user_id = u

\* Worker p's reserve is between its read of the seat's status and the end of
\* its transaction.
InReadCheckWrite(p) ==
    /\ call[p].op \in ReserveOps
    /\ pc[p] \in {"dup", "flush", "commit", "fk"}

\* C8: every reserve holds the seat's exclusive row lock from its read of the
\* status until its transaction ends, so no two reserves of the same seat are
\* both between reading the status and committing.
C8_ExclusiveReadCheckWrite ==
    /\ \A p \in Procs :
          InReadCheckWrite(p) => xlock[call[p].seat_id] = p
    /\ \A p, q \in Procs :
          (p # q /\ InReadCheckWrite(p) /\ InReadCheckWrite(q))
          => call[p].seat_id # call[q].seat_id

\* C9: a call never waits for a call on a different seat.
C9_NoCrossSeatWait ==
    \A p, q \in Procs :
        WaitsFor(p, q) => call[p].seat_id = call[q].seat_id

\* Two book_seat_with_lock calls hold the row locks of two seats of one slot
\* at the same time, each past its checks.
C9_Witness ==
    \E p, q \in Procs :
        /\ p # q
        /\ call[p].op = "book_seat_with_lock" /\ call[q].op = "book_seat_with_lock"
        /\ pc[p] \in {"dup", "flush", "commit"} /\ pc[q] \in {"dup", "flush", "commit"}
        /\ call[p].seat_id # call[q].seat_id
        /\ SlotOf(call[p].seat_id) = SlotOf(call[q].seat_id)
        /\ xlock[call[p].seat_id] = p /\ xlock[call[q].seat_id] = q

ChecksRun(p) ==
    /\ pc[p] \in {"idle", "lockwait"}
    /\ pc'[p] \notin {"idle", "lockwait"}
    /\ call'[p].op \in ReserveOps

SeatNotAvailable == HTTPException(409, "Seat is not available")

PastSlot == HTTPException(400, "Cannot book seats for past time slots")

AlreadyBooked == HTTPException(409, "You already have a booking for this time slot")

\* C11 (as stated): a reserve of a seat whose slot has started fails with 400
\* whatever the seat's status is, and changes nothing.
C11_PastSlotInvalidState ==
    [][\A p \in Procs :
          LET s == call'[p].seat_id
          IN  (ChecksRun(p) /\ s \in SeatIds /\ ~Future(s))
              => /\ pc'[p] = "done"
                 /\ result'[p] = PastSlot
                 /\ seats' = seats /\ bookings' = bookings /\ slots' = slots]_vars

\* C11 (amended): a reserve of a seat whose slot has started fails and changes
\* nothing: with 400 when the seat is available, with 409 'Seat is not
\* available' when it is booked, reserved or under maintenance.
C11_PastSlotRejected ==
    [][\A p \in Procs :
          LET s == call'[p].seat_id
          IN  (ChecksRun(p) /\ s \in SeatIds /\ ~Future(s))
              => /\ pc'[p] = "done"
                 /\ result'[p] = IF seats[s].status = AVAILABLE
                                  THEN PastSlot ELSE SeatNotAvailable
                 /\ seats' = seats /\ bookings' = bookings /\ slots' = slots]_vars

\* A reserve of an available seat of a started slot was answered 400.
C11_Witness ==
    \E p \in Procs :
        /\ pc[p] = "done"
        /\ call[p].op \in ReserveOps
        /\ call[p].seat_id \in SeatIds
        /\ seats[call[p].seat_id].status = AVAILABLE
        /\ ~Future(call[p].seat_id)
        /\ result[p] = PastSlot

\* C12: a reserve checks, in this order, that the seat exists (404), that it
\* is available (409), that its slot has not started (400) and that the user
\* holds no confirmed booking in the slot (409); the error is that of the
\* first check that fails, and the next check is reached only when the one
\* before it passed.
C12_FixedCheckOrder ==
    [][\A p \in Procs :
          LET s == call'[p].seat_id
              u == call'[p].user_id
          IN  /\ ChecksRun(p)
                 => IF s \notin SeatIds
                    THEN pc'[p] = "done"
                         /\ result'[p] = HTTPException(404, "Seat not found")
                    ELSE IF seats[s].status # AVAILABLE
                    THEN pc'[p] = "done" /\ result'[p] = SeatNotAvailable
                    ELSE IF ~Future(s)
                    THEN pc'[p] = "done" /\ result'[p] = PastSlot
                    ELSE pc'[p] = "dup"
              /\ (call'[p].op \in ReserveOps /\ pc[p] = "dup" /\ pc'[p] # "dup")
                 => IF HoldsInSlot(u, s)
                    THEN pc'[p] = "done" /\ result'[p] = AlreadyBooked
                    ELSE pc'[p] = "flush"
              /\ (call'[p].op \in ReserveOps /\ pc[p] # "done" /\ pc'[p] = "done"
                                             /\ result'[p] = AlreadyBooked)
                 => pc[p] = "dup"]_vars

\* Two checks failed at once, the slot had started and the user held a
\* booking in it: the reserve was answered 400, the earlier of the two.
C12_Witness ==
    \E p \in Procs :
        /\ pc[p] = "done"
        /\ call[p].op \in ReserveOps
        /\ call[p].seat_id \in SeatIds
        /\ ~Future(call[p].seat_id)
        /\ HoldsInSlot(call[p].user_id, call[p].seat_id)
        /\ result[p] = PastSlot

\* In this step worker p serves a cancel of booking b for user u.
CancelRuns(p) ==
    /\ pc[p] = "idle"
    /\ pc'[p] = "done"
    /\ call'[p].op = "cancel_booking"

\* Booking b exists and belongs to user u.
Owns(u, b) == b \in 1..Len(bookings) /\ bookings[b].user_id = u

\* C13: a cancel of a booking that exists, belongs to the user, is confirmed
\* and whose slot has not started returns the booking (200) and turns its
\* stored status from confirmed to cancelled.
C13_CancelSucceeds ==
    [][\A p \in Procs :
          LET b == call'[p].booking_id
              u == call'[p].user_id
          IN  (/\ CancelRuns(p)
               /\ Owns(u, b)
               /\ bookings[b].status = CONFIRMED
               /\ Future(bookings[b].seat_id))
              => /\ result'[p].code = 200
                 /\ bookings' = [bookings EXCEPT ![b].status = CANCELLED]]_vars

C15_CancelNotFound ==
    [][\A p \in Procs :
          (CancelRuns(p) /\ ~Owns(call'[p].user_id, call'[p].booking_id))
          => /\ result'[p].code = 404
             /\ bookings' = bookings
             /\ seats' = seats]_vars

\* C16: a cancel of a confirmed booking whose slot has started fails with 400
\* 'Cannot cancel bookings for past time slots' and leaves the booking
\* confirmed.
C16_CancelPastSlot ==
    [][\A p \in Procs :
          LET b == call'[p].booking_id
              u == call'[p].user_id
          IN  (/\ CancelRuns(p)
               /\ Owns(u, b)
               /\ bookings[b].status = CONFIRMED
               /\ ~Future(bookings[b].seat_id))
              => /\ result'[p] = HTTPException(400,
                                     "Cannot cancel bookings for past time slots")
                 /\ bookings'[b].status = CONFIRMED]_vars

\* C17: no cancel changes a seat's status, and a booked seat becomes
\* available only in a step in which a release_seat on it returns.
C17_CancelKeepsSeats ==
    [][/\ \A p \in Procs : CancelRuns(p) => seats' = seats
       /\ \A s \in SeatIds :
             (seats[s].status = BOOKED /\ seats'[s].status # BOOKED)
             => \E p \in Procs : /\ call[p].op = "release_seat"
                                 /\ call[p].seat_id = s
                                 /\ pc[p] = "release"
                                 /\ pc'[p] = "done"
                                 /\ result'[p] = Returned]_vars

\* A cancel of a user's own confirmed booking has ended and the booking's
\* seat, booked by book_seat_with_lock, is still booked.
C17_Witness ==
    \E p \in Procs :
        /\ Ended(p, "cancel_booking")
        /\ Owns(call[p].user_id, call[p].booking_id)
        /\ bookings[call[p].booking_id].status = CONFIRMED
        /\ seats[bookings[call[p].booking_id].seat_id].status = BOOKED

Range(list) == {list[i] : i \in 1..Len(list)}

\* In this step worker p's get_available_seats_for_slot runs and returns.
ListingRuns(p) ==
    /\ pc[p] = "idle"
    /\ pc'[p] = "done"
    /\ call'[p].op = "get_available_seats_for_slot"

\* Seat s is one a listing with the arguments of call c is asked about.
AskedAbout(c, s) ==
    /\ seats[s].slot_id = c.slot_id
    /\ c.seat_type # None => seats[s].seat_type = c.seat_type

\* In this step a release_seat on seat s commits and returns.
ReleaseReturns(s) ==
    \E p \in Procs : /\ call[p].op = "release_seat"
                     /\ call[p].seat_id = s
                     /\ pc[p] = "release"
                     /\ pc'[p] = "done"
                     /\ result'[p] = Returned

\* C18: the step in which book_seat_with_lock returns for seat S leaves S
\* booked; a listing returns S only while S is available and returns every
\* available seat it is asked about; a seat that is not available becomes
\* available only in a step in which release_seat on it returns, and that
\* step makes it available.
C18_AbsentUntilReleased ==
    [][/\ \A p \in Procs :
             (/\ call'[p].op = "book_seat_with_lock"
              /\ pc[p] # "done" /\ pc'[p] = "done"
              /\ result'[p] = Returned)
             => seats'[call'[p].seat_id].status = BOOKED
       /\ \A p \in Procs : \A s \in SeatIds :
             (ListingRuns(p) /\ AskedAbout(call'[p], s))
             => (s \in Range(result'[p].body) <=> seats[s].status = AVAILABLE)
       /\ \A s \in SeatIds :
             /\ (seats[s].status # AVAILABLE /\ seats'[s].status = AVAILABLE)
                   => ReleaseReturns(s)
             /\ ReleaseReturns(s) => seats'[s].status = AVAILABLE]_vars

\* Seat S was booked by book_seat_with_lock (only that sets a seat booked),
\* release_seat(S) has returned, and a listing of S's slot holds S again.
C18_Witness ==
    \E p, q \in Procs :
        /\ Ended(q, "release_seat")
        /\ result[q] = Returned
        /\ ConfirmedFor(call[q].seat_id) # {}
        /\ Ended(p, "get_available_seats_for_slot")
        /\ call[q].seat_id \in Range(result[p].body)

\* C19: a listing returns the seats of the slot whose status is available,
\* of the given seat_type when one is given, each once, in ascending
\* seat_number, and changes no seat, booking or slot.
C19_ListingExactAndOrdered ==
    [][\A p \in Procs :
          ListingRuns(p)
          => LET body == result'[p].body
                 c    == call'[p]
             IN  /\ result'[p].code = 200
                 /\ \A s \in SeatIds :
                       s \in Range(body)
                       <=> /\ seats[s].slot_id = c.slot_id
                           /\ seats[s].status = AVAILABLE
                           /\ c.seat_type = None \/ seats[s].seat_type = c.seat_type
                 /\ Range(body) \subseteq SeatIds
                 /\ Len(body) = Cardinality(Range(body))
                 /\ \A i, j \in 1..Len(body) :
                       i < j => seats[body[i]].seat_number < seats[body[j]].seat_number
                 /\ seats' = seats /\ bookings' = bookings /\ slots' = slots]_vars

\* A listing returned two seats, the one with the lower seat_number first.
C19_Witness ==
    \E p \in Procs :
        /\ Ended(p, "get_available_seats_for_slot")
        /\ Len(result[p].body) = 2
        /\ seats[result[p].body[1]].seat_number < seats[result[p].body[2]].seat_number

\* Worker q's book_seat_with_lock has assigned seat.status = booked and has
\* not committed.
SetBookedNotCommitted(q) ==
    /\ call[q].op = "book_seat_with_lock"
    /\ pc[q] \in {"flush", "commit"}

\* C20: a listing that runs while a book_seat_with_lock has set its seat to
\* booked and not committed returns that seat (when asked about it): the
\* seat is seen as booked by no listing before the commit, hence by none when
\* the reserve rolls back.
C20_NoDirtyRead ==
    [][\A p, q \in Procs :
          (/\ ListingRuns(p)
           /\ q # p
           /\ SetBookedNotCommitted(q)
           /\ AskedAbout(call'[p], call[q].seat_id))
          => call[q].seat_id \in Range(result'[p].body)]_vars

\* A listing has returned a seat whose UPDATE to booked another session has
\* flushed and not committed.
C20_Witness ==
    \E p, q \in Procs :
        /\ p # q
        /\ Ended(p, "get_available_seats_for_slot")
        /\ call[q].op = "book_seat_with_lock"
        /\ pc[q] = "commit"
        /\ call[q].seat_id \in Range(result[p].body)

\* In this step worker p's release_seat reads its seat under the row lock and
\* checks its status.
ReleaseChecksRun(p) ==
    /\ pc[p] \in {"idle", "lockwait"}
    /\ pc'[p] \notin {"idle", "lockwait"}
    /\ call'[p].op = "release_seat"

NotBooked == HTTPException(400, "Seat is not currently booked")

\* C21: release_seat on a booked seat goes on to commit, which makes the seat
\* available and returns; on an available, reserved or maintenance seat it
\* fails with 400 and the status stays; and it returns only through that
\* commit.
C21_ReleaseOnlyBooked ==
    [][\A p \in Procs :
          LET s == call'[p].seat_id
          IN  /\ (ReleaseChecksRun(p) /\ s \in SeatIds)
                 => /\ seats' = seats
                    /\ IF seats[s].status = BOOKED
                       THEN pc'[p] = "release"
                       ELSE pc'[p] = "done" /\ result'[p] = NotBooked
              /\ (call[p].op = "release_seat" /\ pc[p] = "release"
                                              /\ pc'[p] # "release")
                 => /\ seats[s].status = BOOKED
                    /\ seats'[s].status = AVAILABLE
                    /\ pc'[p] = "done" /\ result'[p] = Returned
              /\ (call'[p].op = "release_seat" /\ pc[p] # "done"
                      /\ pc'[p] = "done" /\ result'[p] = Returned)
                 => pc[p] = "release"]_vars

\* A release_seat on a reserved seat was answered 400 and the seat is still
\* reserved.
C21_Witness ==
    \E p \in Procs :
        /\ Ended(p, "release_seat")
        /\ call[p].seat_id \in SeatIds
        /\ seats[call[p].seat_id].status = RESERVED
        /\ result[p] = NotBooked

\* C22: a step changes a seat's status only from available to booked or from
\* booked to available, and changes nothing else of a seat row.
C22_SeatTransitions ==
    [][\A s \in SeatIds :
          /\ seats'[s].status # seats[s].status
                => \/ seats[s].status = AVAILABLE /\ seats'[s].status = BOOKED
                   \/ seats[s].status = BOOKED /\ seats'[s].status = AVAILABLE
          /\ seats'[s] = [seats[s] EXCEPT !.status = seats'[s].status]]_vars

\* A seat went from available to booked and back while the reserved and the
\* maintenance seat, released in vain, kept their status.
C22_Witness ==
    \E p, q \in Procs :
        /\ Ended(p, "release_seat")
        /\ result[p] = Returned
        /\ seats[call[p].seat_id].status = AVAILABLE
        /\ Ended(q, "release_seat")
        /\ result[q] = NotBooked
        /\ seats[call[q].seat_id].status \in {RESERVED, MAINTENANCE}

\* C23: no step removes a booking or changes a booking's user_id or seat_id,
\* and a step changes a booking's status only from confirmed to cancelled.
C23_AppendOnlyLedger ==
    [][/\ Len(bookings') >= Len(bookings)
       /\ \A i \in 1..Len(bookings) :
             /\ bookings'[i].user_id = bookings[i].user_id
             /\ bookings'[i].seat_id = bookings[i].seat_id
             /\ \/ bookings'[i].status = bookings[i].status
                \/ /\ bookings[i].status = CONFIRMED
                   /\ bookings'[i].status = CANCELLED]_vars

\* A cancel of the user's own confirmed booking, made through POST /bookings,
\* has ended, and the booking is in the ledger as it was.
C23_Witness ==
    \E p \in Procs :
        /\ Ended(p, "cancel_booking")
        /\ Owns(call[p].user_id, call[p].booking_id)
        /\ bookings[call[p].booking_id].status = CONFIRMED
        /\ seats[bookings[call[p].booking_id].seat_id].status = AVAILABLE

\* The calls that write: both reserve paths, cancel and release.
WriteOps == ReserveOps \cup {"cancel_booking", "release_seat"}

\* C24: the step in which a reserve, cancel or release ends in an error
\* changes no committed seat and no committed booking, and every step that
\* changes one is the commit in which a call returns its result: a call that
\* ends in an error has changed nothing.
C24_ErrorsChangeNothing ==
    [][/\ \A p \in Procs :
             (/\ call'[p].op \in WriteOps
              /\ pc[p] # "done" /\ pc'[p] = "done"
              /\ result'[p].code \notin {200, 201})
             => seats' = seats /\ bookings' = bookings
       /\ (seats' # seats \/ bookings' # bookings)
             => \E p \in Procs : /\ pc[p] \in {"commit", "fk", "release"}
                                 /\ pc'[p] = "done"
                                 /\ result'[p].code \in {200, 201}]_vars

\* A book_seat_with_lock ended in 500 on the unique index: the seat it had
\* set to booked in its transaction is available and has no booking of its
\* user.
C24_Witness ==
    \E p \in Procs :
        /\ Ended(p, "book_seat_with_lock")
        /\ result[p] = HTTPException(500, "Failed to book seat")
        /\ seats[call[p].seat_id].status = AVAILABLE
        /\ \A i \in ConfirmedFor(call[p].seat_id) :
              bookings[i].user_id # call[p].user_id

\* C29: no step changes a slot or a resource.
C29_CatalogReadOnly ==
    [][slots' = slots /\ resources' = resources]_vars

\* A book_seat_with_lock has committed and its slot's row is as seeded.
C29_Witness ==
    \E p \in Procs :
        /\ Ended(p, "book_seat_with_lock")
        /\ result[p] = Returned
        /\ slots[SlotOf(call[p].seat_id)].version = 0
        /\ slots[SlotOf(call[p].seat_id)].capacity = 2
        /\ DOMAIN resources = ResourceIds

\* C30: a step of a release_seat call changes no booking and nothing of the
\* seats but the status of its seat.
C30_ReleaseTouchesOnlySeat ==
    [][\A p \in Procs :
          LET s == IF call'[p].op = "release_seat"
                   THEN call'[p].seat_id ELSE call[p].seat_id
          IN  (/\ pc'[p] # pc[p]
               /\ call'[p].op = "release_seat" \/ call[p].op = "release_seat")
              => /\ bookings' = bookings
                 /\ \A o \in SeatIds :
                       IF o = s
                       THEN seats'[o] = [seats[o] EXCEPT !.status = seats'[o].status]
                       ELSE seats'[o] = seats[o]]_vars

\* release_seat has returned for a seat that a confirmed booking references:
\* the seat is available and the booking is still confirmed.
C30_Witness ==
    \E p \in Procs :
        /\ Ended(p, "release_seat")
        /\ result[p] = Returned
        /\ seats[call[p].seat_id].status = AVAILABLE
        /\ \E i \in ConfirmedFor(call[p].seat_id) :
              bookings[i].seat_id = call[p].seat_id

\* C25: a reserve or release whose wait for the seat's row lock is ended by
\* the store's lock timeout ends with 409, not with 500.
C25_LockTimeoutIsConflict ==
    [][\A p \in Procs :
          (/\ pc[p] = "lockwait"
           /\ ~LockFree(p, call[p].seat_id)
           /\ pc'[p] = "done")
          => result'[p].code = 409]_vars

\* In this step worker p's get_resource_with_slots runs and ends.
CatalogQueryRuns(p) ==
    /\ pc[p] = "idle"
    /\ pc'[p] = "done"
    /\ call'[p].op = "get_resource_with_slots"

\* Slot sl passes the time filter of call c: it starts at or after start_date,
\* or the call time when none is given, and ends by end_date when one is given.
InWindow(c, sl) ==
    /\ slots[sl].resource_id = c.resource_id
    /\ IF c.start_date = NoDate
       THEN slots[sl].start_time >= now
       ELSE slots[sl].start_time >= c.start_date
    /\ c.end_date = NoDate \/ slots[sl].end_time <= c.end_date

AvailableSeatsOf(sl) ==
    {s \in SeatIds : seats[s].slot_id = sl /\ seats[s].status = AVAILABLE}

SlotIdsOf(body) == {body[i].slot_id : i \in 1..Len(body)}

ExposesAvailableSeats(entry) ==
    /\ AvailableSeatsOf(entry.slot_id) \subseteq Range(entry.seats)
    /\ \A i, j \in 1..Len(entry.seats) :
          i < j => seats[entry.seats[i]].seat_number
                      < seats[entry.seats[j]].seat_number

\* C28: GET /resources/{id}/slots answers 404 exactly when the resource is
\* absent and 200 for every existing resource, and each returned slot
\* exposes its available seats in ascending seat_number.
C28_CatalogAlwaysSucceeds ==
    [][\A p \in Procs :
          CatalogQueryRuns(p)
          => /\ result'[p].code = 404 <=> call'[p].resource_id \notin ResourceIds
             /\ call'[p].resource_id \in ResourceIds => result'[p].code = 200
             /\ \A i \in 1..Len(result'[p].body) :
                   ExposesAvailableSeats(result'[p].body[i])]_vars

\* How call c ends when it runs alone, from start to end, on the committed
\* rows of the current state at clock t.
SerialResult(c, t) ==
    LET s == c.seat_id
    IN  IF s \notin SeatIds
        THEN HTTPException(404, "Seat not found")
        ELSE IF c.op = "release_seat"
        THEN IF seats[s].status # BOOKED THEN NotBooked ELSE Returned
        ELSE IF seats[s].status # AVAILABLE
        THEN SeatNotAvailable
        ELSE IF slots[seats[s].slot_id].start_time <= t
        THEN PastSlot
        ELSE IF ExistingBooking(c.user_id, seats[s].slot_id)
        THEN AlreadyBooked
        ELSE IF UniqueViolation(s)
        THEN HTTPException(500, "Failed to book seat")
        ELSE Returned

\* The seat rows that call leaves.
SerialSeats(c, t) ==
    IF SerialResult(c, t) # Returned
    THEN seats
    ELSE IF c.op = "release_seat"
    THEN [seats EXCEPT ![c.seat_id].status = AVAILABLE]
    ELSE [seats EXCEPT ![c.seat_id].status = BOOKED]

\* The booking rows that call leaves.
SerialBookings(c, t) ==
    IF SerialResult(c, t) = Returned /\ c.op = "book_seat_with_lock"
    THEN Append(bookings, Booking(c.user_id, c.seat_id))
    ELSE bookings

\* Worker p's call ends in this step.
EndsNow(p) == pc[p] # "done" /\ pc'[p] = "done"

\* C31: when book_seat_with_lock and release_seat calls run concurrently on
\* one seat, each call ends with the result, the seat rows and the booking
\* rows that the same call, run alone at the moment it ends (with the clock
\* of its slot check), gives; no other step changes a seat or a booking.
\* The calls therefore take effect one at a time, in the order they end.
C31_SerializedOnSeat ==
    [][ /\ \A p \in Procs :
              EndsNow(p) =>
                 \E t \in 0..now :
                    /\ result'[p] = SerialResult(call'[p], t)
                    /\ seats' = SerialSeats(call'[p], t)
                    /\ bookings' = SerialBookings(call'[p], t)
        /\ (\A p \in Procs : ~EndsNow(p)) =>
              (seats' = seats /\ bookings' = bookings) ]_vars

\* A reserve of a seat has returned its booking while the other worker's
\* call on that seat, begun before the commit, still waits to read the row.
C31_Witness ==
    \E p, q \in Procs :
        /\ p # q
        /\ Ended(p, "book_seat_with_lock")
        /\ result[p] = Returned
        /\ pc[q] = "lockwait"
        /\ call[q].seat_id = call[p].seat_id
        /\ xlock[call[p].seat_id] = None

\* C32: in every reachable state, each seat that a confirmed booking
\* references has status booked.
C32_ConfirmedSeatIsBooked ==
    \A s \in SeatIds : ConfirmedFor(s) # {} => seats[s].status = BOOKED

\* C33: every book_seat_with_lock call, run among book_seat_with_lock,
\* release_seat and cancel_booking calls, ends with success, 404, 409 or 400.
C33_ReserveNeverInternalError ==
    \A p \in Procs :
        Ended(p, "book_seat_with_lock") => result[p].code \in {200, 404, 409, 400}

\* C34: a book_seat_with_lock or release_seat call that holds a seat's row
\* lock eventually lets it go, whether it commits, fails with an
\* HTTPException that leaves the transaction open, or fails with a store
\* error; and every call that has begun, a call waiting for the lock
\* included, ends with a result.
C34_LockEventuallyReleased ==
    /\ \A p \in Procs, s \in SeatIds : (xlock[s] = p) ~> (xlock[s] # p)
    /\ \A p \in Procs : (pc[p] # "idle") ~> (pc[p] = "done")

\* A reserve has failed with an HTTPException after it took the row lock,
\* which its open transaction still holds, and the other worker waits for
\* that lock.
C34_Witness ==
    \E p, q \in Procs :
        /\ p # q
        /\ Ended(p, "book_seat_with_lock")
        /\ result[p].code \in {409, 400}
        /\ xlock[call[p].seat_id] = p
        /\ pc[q] = "lockwait"
        /\ call[q].seat_id = call[p].seat_id

\* C35: in every reachable state each worker's transaction holds at most
\* one seat row lock, and no worker waits, directly or through other
\* workers, for itself.
C35_NoDeadlock ==
    /\ \A p \in Procs : Cardinality({s \in SeatIds : xlock[s] = p}) <= 1
    /\ \A p \in Procs : ~InDeadlock(p)

\* C36: once a logout_user call with a refresh token has committed, a
\* refresh_tokens call with that token ends with 401.
C36_RevokedTokenRejected ==
    [][ \A p, q \in Procs :
           ( /\ Ended(p, "logout_user")
             /\ result[p] = Returned
             /\ EndsNow(q)
             /\ call'[q].op = "refresh_tokens"
             /\ call'[q].refresh_token = call[p].refresh_token )
           => result'[q].code = 401 ]_vars

\* C37: GET /bookings/{booking_id} answers 200 with the booking when the
\* booking exists and belongs to the caller, and 404 'Booking not found'
\* when it does not exist or belongs to another user.
C37_GetBookingResponses ==
    \A p \in Procs :
        Ended(p, "get_booking") =>
            IF Owns(call[p].user_id, call[p].booking_id)
            THEN result[p].code = 200
            ELSE result[p] = HTTPException(404, "Booking not found")

====
